---- MODULE Spec2Model ----
(***************************************************************************)
(* A model of the perpetual-futures contracts under src/src/perp/contracts *)
(* (Vamm, ClearingHouse, AccountBalance, InsuranceFund, Funding, Oracle,   *)
(* ExchangeRouter) as one state machine.  Every external call is one       *)
(* atomic step; a call that reverts leaves the contract state unchanged    *)
(* and records the revert reason in the bookkeeping variable last.         *)
(***************************************************************************)
EXTENDS Integers, FiniteSets, Sequences, TLC

VARIABLES
    virtualBase,    \* Vamm.virtualBase.value
    virtualQuote,   \* Vamm.virtualQuote.value
    k,              \* Vamm.k.value
    isPaused,       \* Vamm.isPaused
    positions,      \* ClearingHouse.positions : trader -> market -> Position
    markets,        \* ClearingHouse.markets   : market -> Market
    collateral,     \* AccountBalance.collateral : trader -> value
    totalBalance,   \* InsuranceFund.totalBalance.value
    fundingGrowth,      \* Funding.fundingGrowth : market -> FundingGrowth
    traderFundingIndex, \* Funding.traderFundingIndex : trader -> market -> value
    fundingPeriod,      \* Funding.fundingPeriod, in seconds
    maxFundingRate,     \* Funding.maxFundingRate, in basis points
    now,                \* block.timestamp, in seconds
    priceFeeds,         \* Oracle.priceFeeds : market -> PriceFeed
    cachedPrices,       \* Oracle.cachedPrices : market -> value
    lastUpdateTime,     \* Oracle.lastUpdateTime : market -> seconds
    tokenBalance,       \* collateral token: holder -> balance
    nCalls,         \* successful swaps and position changes so far (bounds the exploration)
    last            \* the last call: its name, sender, arguments and outcome

vammVars == <<virtualBase, virtualQuote, k, isPaused>>
chVars   == <<positions, markets>>
abVars   == <<collateral>>
ifVars   == <<totalBalance>>
fdVars   == <<fundingGrowth, traderFundingIndex, fundingPeriod, maxFundingRate, now>>
orVars   == <<priceFeeds, cachedPrices, lastUpdateTime>>
tkVars   == <<tokenBalance>>
vars     == <<virtualBase, virtualQuote, k, isPaused, positions, markets,
              collateral, totalBalance, fundingGrowth, traderFundingIndex,
              fundingPeriod, maxFundingRate, now, priceFeeds, cachedPrices,
              lastUpdateTime, tokenBalance, nCalls, last>>

----------------------------------------------------------------------------
(* Program constants *)

\* Decimal scale.  The source uses 10**18; the model keeps the same
\* fixed-point arithmetic at a scale TLC's integers can hold.
UNIT == 100

BASIS_POINTS == 10000
FEE_RATIO == 30
INITIAL_MARGIN_RATIO == 100
MAINTENANCE_MARGIN_RATIO == 50
DefaultMaintenanceMarginRatio == 50
DefaultLiquidationFeeRatio == 500
DefaultFundingPeriod == 28800
DefaultMaxFundingRate == 1000
ONE_DAY == 86400

\* Addresses.  CLEARING_HOUSE is the address the ledger contracts and the
\* vAMM were constructed with, ADMIN the deployer.
ADMIN == "admin"
CLEARING_HOUSE == "clearingHouse"
ROUTER == "router"
ACCOUNT_BALANCE == "accountBalance"
Traders == {"t1", "t2"}
Markets == {"ETH"}

\* The addresses that can own a position in the ClearingHouse, and the
\* addresses that hold the collateral token.
Accounts == Traders \cup {ROUTER}
Holders == Traders \cup {ROUTER, ACCOUNT_BALANCE}

\* Vamm constructor arguments: 10.00 base against 20.00 quote.
InitBase == 10 * UNIT
InitQuote == 20 * UNIT

\* block.timestamp at deployment: like every real block time it is past the
\* first funding period counted from zero.
DeployTime == DefaultFundingPeriod

----------------------------------------------------------------------------
(* Bounds of the model *)

MaxCalls == 3               \* successful swaps, opens, closes and liquidations in one behaviour
MaxBalance == 20            \* free collateral one trader may accumulate
MaxFund == 20               \* insurance fund balance
ScaleDecimals == 2          \* decimal digits of the Decimal scale (18 in the source)
MaxPeriods == 1             \* default funding periods the clock may run past deployment
InitTokens == 40            \* collateral tokens each trader holds at the start

----------------------------------------------------------------------------
(* Decimal library *)

Abs(x) == IF x >= 0 THEN x ELSE -x

\* Signed integer division of the EVM: the quotient is truncated toward zero.
SDiv(a, b) ==
    IF (a >= 0) = (b > 0) THEN Abs(a) \div Abs(b) ELSE -(Abs(a) \div Abs(b))
Max0(x) == IF x >= 0 THEN x ELSE 0

mulD(a, b) == (a * b) \div UNIT

DivDUp(a, b) == (a * UNIT + b - 1) \div b
divD(a, b) == (a * UNIT) \div b

Ok == ""

\* The record of a call: who called what, on which trader and market, in
\* which direction, with which amount; its revert reason ("" for success),
\* its return value, and one more figure of the call (see each action).
Call(op, caller, trader, market, dir, amt, err, ret, out) ==
    [op |-> op, caller |-> caller, trader |-> trader, market |-> market,
     dir |-> dir, amt |-> amt, err |-> err, ret |-> ret, out |-> out]

Dir(isLong) == IF isLong THEN "long" ELSE "short"

----------------------------------------------------------------------------
(* Vamm *)

TradingFee(amountIn) == (amountIn * FEE_RATIO) \div BASIS_POINTS

\* The curve of swap and getAmountOut, from reserves vb, vq and constant kk.
\* err is the revert reason ("" when the arithmetic succeeds).
CurveResult(isLong, amountIn, vb, vq, kk) ==
    LET fee == TradingFee(amountIn)
        net == amountIn - fee
        nq  == IF isLong THEN vq + net ELSE divD(kk, vb + net)
        nb  == IF isLong THEN divD(kk, vq + net) ELSE vb + net
        out == IF isLong THEN vb - nb ELSE vq - nq
    IN  [err |-> IF out < 0 THEN "Panic" ELSE Ok,
         base |-> nb, quote |-> nq, out |-> out, fee |-> fee]

\* The modifier whenNotPaused: whether a call may go on.
whenAlways(paused) == TRUE
whenNotPaused(paused) == ~paused

\* The slippage check of swap: whether amountOut misses the minimum.
AtOrBelowMinimum(amountOut, minAmountOut) == amountOut <= minAmountOut
BelowMinimum(amountOut, minAmountOut) == amountOut < minAmountOut

SwapResult(caller, isLong, amountIn, minAmountOut) ==
    LET c == CurveResult(isLong, amountIn, virtualBase, virtualQuote, k)
        err == IF caller # CLEARING_HOUSE THEN "Only ClearingHouse"
               ELSE IF ~whenNotPaused(isPaused) THEN "Trading paused"
               ELSE IF amountIn <= 0 THEN "Amount must be positive"
               ELSE IF c.err # Ok THEN c.err
               ELSE IF BelowMinimum(c.out, minAmountOut) THEN "Slippage exceeded"
               ELSE Ok
    IN  [err |-> err,
         base |-> IF err = Ok THEN c.base ELSE virtualBase,
         quote |-> IF err = Ok THEN c.quote ELSE virtualQuote,
         out |-> IF err = Ok THEN c.out ELSE 0]

getSpotPrice == divD(virtualQuote, virtualBase)

\* getAmountOut(isLong, amountIn), a view: err is the revert reason, ret the
\* returned amount.
getAmountOutNoFee(isLong, amountIn) ==
    LET out == IF isLong THEN virtualBase - divD(k, virtualQuote + amountIn)
               ELSE virtualQuote - divD(k, virtualBase + amountIn)
    IN  [err |-> IF out < 0 THEN "Panic" ELSE Ok, ret |-> IF out < 0 THEN 0 ELSE out]
getAmountOut(isLong, amountIn) ==
    IF amountIn = 0 THEN [err |-> Ok, ret |-> 0]
    ELSE
    LET fee == (amountIn * FEE_RATIO) \div BASIS_POINTS
        amountInAfterFee == amountIn - fee
        out == IF isLong
               THEN LET newQuote == virtualQuote + amountInAfterFee
                        newBase == divD(k, newQuote)
                    IN  virtualBase - newBase
               ELSE LET newBase == virtualBase + amountInAfterFee
                        newQuote == divD(k, newBase)
                    IN  virtualQuote - newQuote
    IN  [err |-> IF out < 0 THEN "Panic" ELSE Ok, ret |-> IF out < 0 THEN 0 ELSE out]

Swap(callers, amounts, minOuts) ==
    \E caller \in callers, isLong \in BOOLEAN,
       amountIn \in amounts, minAmountOut \in minOuts :
        LET r == SwapResult(caller, isLong, amountIn, minAmountOut) IN
        /\ r.err = Ok => nCalls < MaxCalls
        /\ nCalls' = IF r.err = Ok THEN nCalls + 1 ELSE nCalls
        /\ virtualBase' = r.base
        /\ virtualQuote' = r.quote
        /\ last' = Call("swap", caller, "", "", Dir(isLong), amountIn, r.err,
                        r.out, minAmountOut)
        /\ UNCHANGED <<tkVars, k, isPaused, chVars, abVars, ifVars, fdVars, orVars>>

\* The constant adjustReserves stores for its new reserves: newBase.mulD(newQuote).
ReserveProductUnscaled(newBase, newQuote) == newBase * newQuote
ReserveProduct(newBase, newQuote) == mulD(newBase, newQuote)

AdjustReservesResult(caller, newBase, newQuote) ==
    LET err == IF caller # ADMIN THEN "Only admin"
               ELSE IF ~(newBase > 0 /\ newQuote > 0) THEN "Invalid reserves"
               ELSE Ok
    IN  [err |-> err,
         base |-> IF err = Ok THEN newBase ELSE virtualBase,
         quote |-> IF err = Ok THEN newQuote ELSE virtualQuote,
         k |-> IF err = Ok THEN ReserveProduct(newBase, newQuote) ELSE k]

AdjustReserves(callers, reserves) ==
    \E caller \in callers, newBase \in reserves, newQuote \in reserves :
        LET r == AdjustReservesResult(caller, newBase, newQuote) IN
        /\ virtualBase' = r.base
        /\ virtualQuote' = r.quote
        /\ k' = r.k
        /\ last' = Call("adjustReserves", caller, "", "", "", newBase, r.err, 0,
                        newQuote)
        /\ UNCHANGED <<tkVars, isPaused, chVars, abVars, ifVars, nCalls, fdVars, orVars>>

SetPaused(callers) ==
    \E caller \in callers, p \in BOOLEAN :
        /\ isPaused' = IF caller = ADMIN THEN p ELSE isPaused
        /\ last' = Call("setPaused", caller, "", "", "", IF p THEN 1 ELSE 0,
                        IF caller = ADMIN THEN Ok ELSE "Only admin", 0, 0)
        /\ UNCHANGED <<tkVars, virtualBase, virtualQuote, k, chVars, abVars, ifVars, nCalls, fdVars, orVars>>

----------------------------------------------------------------------------
(* ClearingHouse *)

NoPosition == [size |-> 0, collateral |-> 0, entryPrice |-> 0,
               fundingIndex |-> 0, openNotional |-> 0]
NoMarket == [isActive |-> FALSE, maxLeverage |-> 0,
             maintenanceMarginRatio |-> 0, liquidationFeeRatio |-> 0]

\* getPosition(trader, baseToken)
getPosition(trader, m) == positions[trader][m]

\* The mapping positions after a call has written pos through the storage
\* reference positions[owner][baseToken].
StoredForAll(owner, m, pos) ==
    [a \in DOMAIN positions |-> [positions[a] EXCEPT ![m] = pos]]
Stored(owner, m, pos) == [positions EXCEPT ![owner][m] = pos]

\* addMarket(baseToken, vamm, maxLeverage); a reverted call returns the old record.
AddMarketResult(caller, old, maxLeverage) ==
    IF caller # ADMIN
    THEN [err |-> "Only admin", market |-> old]
    ELSE [err |-> Ok,
          market |-> [isActive |-> TRUE, maxLeverage |-> maxLeverage,
                      maintenanceMarginRatio |-> DefaultMaintenanceMarginRatio,
                      liquidationFeeRatio |-> DefaultLiquidationFeeRatio]]

AddMarket(callers, caps) ==
    \E caller \in callers, m \in Markets, maxLeverage \in caps :
        LET r == AddMarketResult(caller, markets[m], maxLeverage) IN
        /\ markets' = [markets EXCEPT ![m] = r.market]
        /\ last' = Call("addMarket", caller, "", m, "", maxLeverage, r.err, 0, 0)
        /\ UNCHANGED <<tkVars, positions, vammVars, abVars, ifVars, nCalls, fdVars, orVars>>

\* The leverage check of openPosition.
LeverageBelowCap(leverage, maxLeverage) == leverage < maxLeverage
LeverageAllowed(leverage, maxLeverage) == leverage <= maxLeverage

\* The signed size of a trade of baseAmount.
UnsignedSize(isLong, baseAmount) == baseAmount
NewSize(isLong, baseAmount) == IF isLong THEN baseAmount ELSE -baseAmount

\* openPosition as called by the owner of pos on the market with record market.
OpenPositionResult(pos, market, isLong, collateralAmount, leverage, minBaseAmount) ==
    LET openNotional == (collateralAmount * leverage) \div BASIS_POINTS
        baseAmount == openNotional
        newSize == NewSize(isLong, baseAmount)
        totalNotional == pos.openNotional + openNotional
        totalSize == Abs(pos.size) + baseAmount
        err == IF ~market.isActive THEN "Market not active"
               ELSE IF ~LeverageAllowed(leverage, market.maxLeverage)
                    THEN "Leverage too high"
               ELSE IF baseAmount < minBaseAmount THEN "Slippage exceeded"
               ELSE IF pos.size = 0 /\ baseAmount = 0 THEN "Panic"
               ELSE Ok
        fresh == [size |-> newSize, collateral |-> collateralAmount,
                  entryPrice |-> (openNotional * UNIT) \div baseAmount,
                  fundingIndex |-> pos.fundingIndex,
                  openNotional |-> openNotional]
        added == [size |-> pos.size + newSize,
                  collateral |-> pos.collateral + collateralAmount,
                  entryPrice |-> (totalNotional * UNIT) \div totalSize,
                  fundingIndex |-> pos.fundingIndex,
                  openNotional |-> totalNotional]
    IN  [err |-> err,
         pos |-> IF err # Ok THEN pos ELSE IF pos.size = 0 THEN fresh ELSE added,
         ret |-> IF err = Ok THEN baseAmount ELSE 0,
         notional |-> openNotional]

OpenPosition(amounts, leverages, minBases) ==
    \E caller \in Traders, m \in Markets, isLong \in BOOLEAN,
       collateralAmount \in amounts, leverage \in leverages,
       minBaseAmount \in minBases :
        LET r == OpenPositionResult(positions[caller][m], markets[m], isLong,
                                    collateralAmount, leverage, minBaseAmount) IN
        /\ positions' = Stored(caller, m, r.pos)
        /\ last' = Call("openPosition", caller, caller, m, Dir(isLong),
                        collateralAmount, r.err, r.ret, leverage)
        /\ r.err = Ok => nCalls < MaxCalls
        /\ nCalls' = IF r.err = Ok THEN nCalls + 1 ELSE nCalls
        /\ UNCHANGED <<tkVars, markets, vammVars, abVars, ifVars, fdVars, orVars>>

\* What a full close leaves of a position (delete positions[..][..]).
SizeCleared(pos) == [pos EXCEPT !.size = 0]
Deleted(pos) == NoPosition

\* What a partial close of closeRatio leaves of the amount x.
RemainingUp(x, closeRatio) ==
    (x * (BASIS_POINTS - closeRatio) + BASIS_POINTS - 1) \div BASIS_POINTS
Remaining(x, closeRatio) == (x * (BASIS_POINTS - closeRatio)) \div BASIS_POINTS

\* closePosition as called by the owner of pos.
ClosePositionResult(pos, closeRatio) ==
    LET isLong == pos.size > 0
        posSize == Abs(pos.size)
        closeSize == (posSize * closeRatio) \div BASIS_POINTS
        closeNotional == (closeSize * pos.entryPrice) \div UNIT
        currentPrice == pos.entryPrice
        currentNotional == (closeSize * currentPrice) \div UNIT
        pnl == IF isLong THEN currentNotional - closeNotional
               ELSE closeNotional - currentNotional
        err == IF pos.size = 0 THEN "No position"
               ELSE IF ~(closeRatio <= BASIS_POINTS) THEN "Invalid ratio"
               ELSE Ok
        partial == [pos EXCEPT
            !.size = IF isLong THEN pos.size - closeSize ELSE pos.size + closeSize,
            !.collateral = Remaining(pos.collateral, closeRatio),
            !.openNotional = Remaining(pos.openNotional, closeRatio)]
    IN  [err |-> err,
         pos |-> IF err # Ok THEN pos
                 ELSE IF closeRatio = BASIS_POINTS THEN Deleted(pos) ELSE partial,
         ret |-> IF err = Ok THEN pnl ELSE 0,
         closeSize |-> closeSize]

ClosePosition(ratios) ==
    \E caller \in Traders, m \in Markets, closeRatio \in ratios :
        LET r == ClosePositionResult(positions[caller][m], closeRatio) IN
        /\ positions' = Stored(caller, m, r.pos)
        /\ last' = Call("closePosition", caller, caller, m, "", closeRatio, r.err,
                        r.ret, r.closeSize)
        /\ r.err = Ok => nCalls < MaxCalls
        /\ nCalls' = IF r.err = Ok THEN nCalls + 1 ELSE nCalls
        /\ UNCHANGED <<tkVars, markets, vammVars, abVars, ifVars, fdVars, orVars>>

\* The comparison of liquidate's margin check.
BelowOrAtMaintenance(marginRatio, maintenanceMarginRatio) ==
    marginRatio <= maintenanceMarginRatio
BelowMaintenance(marginRatio, maintenanceMarginRatio) ==
    marginRatio < maintenanceMarginRatio

\* liquidate(trader, baseToken) on the position pos of that trader.
LiquidateResult(pos, market) ==
    LET posSize == Abs(pos.size)
        posValue == (posSize * pos.entryPrice) \div UNIT
        marginRatio == (pos.collateral * BASIS_POINTS) \div posValue
        liquidationFee == (pos.collateral * market.liquidationFeeRatio) \div BASIS_POINTS
        err == IF pos.size = 0 THEN "No position"
               ELSE IF posValue = 0 THEN "Panic"
               ELSE IF ~BelowMaintenance(marginRatio, market.maintenanceMarginRatio)
                    THEN "Not liquidatable"
               ELSE Ok
    IN  [err |-> err,
         pos |-> IF err = Ok THEN NoPosition ELSE pos,
         fee |-> IF err = Ok THEN liquidationFee ELSE 0,
         posValue |-> IF err = Ok THEN posValue ELSE 0]

Liquidate ==
    \E caller \in Traders, trader \in Traders, m \in Markets :
        LET r == LiquidateResult(positions[trader][m], markets[m]) IN
        /\ positions' = Stored(trader, m, r.pos)
        /\ last' = Call("liquidate", caller, trader, m, "", 0, r.err, r.posValue,
                        r.fee)
        /\ r.err = Ok => nCalls < MaxCalls
        /\ nCalls' = IF r.err = Ok THEN nCalls + 1 ELSE nCalls
        /\ UNCHANGED <<tkVars, markets, vammVars, abVars, ifVars, fdVars, orVars>>

----------------------------------------------------------------------------
(* AccountBalance *)

\* deposit(trader, amount) on a balance bal.
DepositResult(caller, bal, amount) ==
    IF caller # CLEARING_HOUSE
    THEN [err |-> "Only ClearingHouse", bal |-> bal]
    ELSE [err |-> Ok, bal |-> bal + amount]

Deposit(callers, amounts) ==
    \E caller \in callers, trader \in Traders, amount \in amounts :
        LET r == DepositResult(caller, collateral[trader], amount) IN
        /\ r.bal <= MaxBalance
        /\ collateral' = [collateral EXCEPT ![trader] = r.bal]
        /\ last' = Call("deposit", caller, trader, "", "", amount, r.err, 0, 0)
        /\ UNCHANGED <<tkVars, vammVars, chVars, ifVars, nCalls, fdVars, orVars>>

\* canWithdraw(trader, amount): the remaining collateral is computed and
\* every withdrawal is allowed.
canWithdraw(bal, amount) ==
    LET remainingCollateral == bal - amount IN TRUE

\* The balance check of withdraw: collateral[trader].gte(amount).
CoversStrictly(bal, amount) == bal > amount
Covers(bal, amount) == bal >= amount

WithdrawResult(caller, bal, amount) ==
    LET err == IF caller # CLEARING_HOUSE THEN "Only ClearingHouse"
               ELSE IF ~Covers(bal, amount) THEN "Insufficient collateral"
               ELSE IF ~canWithdraw(bal, amount)
                    THEN "Would violate margin requirements"
               ELSE Ok
    IN  [err |-> err, bal |-> IF err = Ok THEN bal - amount ELSE bal]

Withdraw(callers, amounts) ==
    \E caller \in callers, trader \in Traders, amount \in amounts :
        LET r == WithdrawResult(caller, collateral[trader], amount) IN
        /\ collateral' = [collateral EXCEPT ![trader] = r.bal]
        /\ last' = Call("withdraw", caller, trader, "", "", amount, r.err, 0, 0)
        /\ UNCHANGED <<tkVars, vammVars, chVars, ifVars, nCalls, fdVars, orVars>>

\* The balance realizePnl leaves for a loss.
LossUnfloored(bal, loss) == bal - loss
LossFloored(bal, loss) == IF bal >= loss THEN bal - loss ELSE 0

\* realizePnl(trader, baseToken, pnl) on a balance bal.
RealizePnlResult(caller, bal, pnl) ==
    IF caller # CLEARING_HOUSE
    THEN [err |-> "Only ClearingHouse", bal |-> bal]
    ELSE [err |-> Ok,
          bal |-> IF pnl > 0 THEN bal + Abs(pnl) ELSE LossFloored(bal, Abs(pnl))]

RealizePnl(callers, pnls) ==
    \E caller \in callers, trader \in Traders, pnl \in pnls :
        LET r == RealizePnlResult(caller, collateral[trader], pnl) IN
        /\ r.bal <= MaxBalance
        /\ collateral' = [collateral EXCEPT ![trader] = r.bal]
        /\ last' = Call("realizePnl", caller, trader, "", "", pnl, r.err, 0, 0)
        /\ UNCHANGED <<tkVars, vammVars, chVars, ifVars, nCalls, fdVars, orVars>>

\* getAccountValue / getMarginRatio / isLiquidatable: the total position
\* value is the constant zero of the source.
getAccountValue(trader) == collateral[trader]
getMarginRatio(trader) ==
    LET totalPositionValue == 0 IN
    IF totalPositionValue = 0 THEN 0
    ELSE (getAccountValue(trader) * BASIS_POINTS) \div totalPositionValue
isLiquidatable(trader) ==
    getMarginRatio(trader) < MAINTENANCE_MARGIN_RATIO /\ getMarginRatio(trader) > 0

----------------------------------------------------------------------------
(* InsuranceFund *)

\* addFund(amount), callable by anyone.
AddFundResult(bal, amount) ==
    IF ~(amount > 0)
    THEN [err |-> "Amount must be positive", bal |-> bal]
    ELSE [err |-> Ok, bal |-> bal + amount]

AddFund(callers, amounts) ==
    \E caller \in callers, amount \in amounts :
        LET r == AddFundResult(totalBalance, amount) IN
        /\ r.bal <= MaxFund
        /\ totalBalance' = r.bal
        /\ last' = Call("addFund", caller, "", "", "", amount, r.err, 0, 0)
        /\ UNCHANGED <<tkVars, vammVars, chVars, abVars, nCalls, fdVars, orVars>>

\* The comparison that decides whether the fund falls short of a debt.
FundShortOrEqual(bal, badDebt) == bal <= badDebt
FundShort(bal, badDebt) == bal < badDebt

\* coverBadDebt(trader, badDebt) on a fund balance bal: ret is the returned
\* flag, covered the amount of the FundUsed event.
CoverBadDebtResult(caller, bal, badDebt) ==
    IF caller # CLEARING_HOUSE
    THEN [err |-> "Only ClearingHouse", bal |-> bal, ret |-> FALSE, covered |-> 0]
    ELSE IF FundShort(bal, badDebt)
    THEN [err |-> Ok, bal |-> 0, ret |-> FALSE, covered |-> bal]
    ELSE [err |-> Ok, bal |-> bal - badDebt, ret |-> TRUE, covered |-> badDebt]

CoverBadDebt(callers, debts) ==
    \E caller \in callers, trader \in Traders, badDebt \in debts :
        LET r == CoverBadDebtResult(caller, totalBalance, badDebt) IN
        /\ totalBalance' = r.bal
        /\ last' = Call("coverBadDebt", caller, trader, "", "", badDebt, r.err,
                        IF r.ret THEN 1 ELSE 0, r.covered)
        /\ UNCHANGED <<tkVars, vammVars, chVars, abVars, nCalls, fdVars, orVars>>

\* receiveLiquidationFee(fee)
ReceiveLiquidationFeeResult(caller, bal, fee) ==
    IF caller # CLEARING_HOUSE
    THEN [err |-> "Only ClearingHouse", bal |-> bal]
    ELSE [err |-> Ok, bal |-> bal + fee]

ReceiveLiquidationFee(callers, fees) ==
    \E caller \in callers, fee \in fees :
        LET r == ReceiveLiquidationFeeResult(caller, totalBalance, fee) IN
        /\ r.bal <= MaxFund
        /\ totalBalance' = r.bal
        /\ last' = Call("receiveLiquidationFee", caller, "", "", "", fee, r.err, 0, 0)
        /\ UNCHANGED <<tkVars, vammVars, chVars, abVars, nCalls, fdVars, orVars>>

\* withdrawFund(recipient, amount)
WithdrawFundResult(caller, bal, amount) ==
    LET err == IF caller # ADMIN THEN "Only admin"
               ELSE IF ~(bal >= amount) THEN "Insufficient balance"
               ELSE Ok
    IN  [err |-> err, bal |-> IF err = Ok THEN bal - amount ELSE bal]

WithdrawFund(callers, amounts) ==
    \E caller \in callers, amount \in amounts :
        LET r == WithdrawFundResult(caller, totalBalance, amount) IN
        /\ totalBalance' = r.bal
        /\ last' = Call("withdrawFund", caller, "", "", "", amount, r.err, 0, 0)
        /\ UNCHANGED <<tkVars, vammVars, chVars, abVars, nCalls, fdVars, orVars>>

isHealthy == totalBalance > 0

----------------------------------------------------------------------------
(* Funding *)

NoFundingGrowth == [longFundingRate |-> 0, shortFundingRate |-> 0,
                    timestamp |-> 0, cumulativeFunding |-> 0]

\* The cap of updateFundingRate: the rate is kept within [-cap, cap].
Uncapped(rate, cap) == rate
CapRate(rate, cap) ==
    IF rate > cap THEN cap ELSE IF rate < -cap THEN -cap ELSE rate

\* The timing check of updateFundingRate.
PeriodPassed(timeNow, lastTime, period) == timeNow > lastTime + period
PeriodElapsed(timeNow, lastTime, period) == timeNow >= lastTime + period

\* The premium taken as the rate, without the share of a day.
PremiumRate(markPrice, indexPrice) ==
    CapRate(SDiv((markPrice - indexPrice) * BASIS_POINTS, indexPrice), maxFundingRate)

\* The funding rate of one update, in basis points.
FundingRate(markPrice, indexPrice) ==
    LET premium == SDiv((markPrice - indexPrice) * BASIS_POINTS, indexPrice)
    IN  CapRate(SDiv(premium * fundingPeriod, ONE_DAY), maxFundingRate)

\* updateFundingRate(baseToken, markPrice, indexPrice, .., ..) on the record
\* growth of the market; the two open-interest arguments are not read.
UpdateFundingRateResult(caller, growth, markPrice, indexPrice) ==
    LET err == IF caller # CLEARING_HOUSE THEN "Only ClearingHouse"
               ELSE IF ~PeriodElapsed(now, growth.timestamp, fundingPeriod)
                    THEN "Too early"
               ELSE IF indexPrice = 0 THEN "Panic"
               ELSE Ok
        rate == FundingRate(markPrice, indexPrice)
    IN  [err |-> err,
         growth |-> IF err # Ok THEN growth
                    ELSE [longFundingRate |-> rate, shortFundingRate |-> -rate,
                          timestamp |-> now,
                          cumulativeFunding |-> growth.cumulativeFunding + rate],
         ret |-> IF err = Ok THEN rate ELSE 0]

UpdateFundingRate(callers, marks, indexes) ==
    \E caller \in callers, m \in Markets, markPrice \in marks, indexPrice \in indexes :
        LET r == UpdateFundingRateResult(caller, fundingGrowth[m], markPrice, indexPrice) IN
        /\ fundingGrowth' = [fundingGrowth EXCEPT ![m] = r.growth]
        /\ last' = Call("updateFundingRate", caller, "", m, "", markPrice, r.err,
                        r.ret, indexPrice)
        /\ UNCHANGED <<tkVars, vammVars, chVars, abVars, ifVars, nCalls, traderFundingIndex,
                       fundingPeriod, maxFundingRate, now, orVars>>

\* The funding a position of positionSize owes between the index lastIndex
\* and the cumulative index cumulative.
FundingOwedFloored(positionSize, cumulative, lastIndex) ==
    (positionSize * (cumulative - lastIndex)) \div BASIS_POINTS
FundingOwed(positionSize, cumulative, lastIndex) ==
    SDiv(positionSize * (cumulative - lastIndex), BASIS_POINTS)

\* settleFunding(trader, baseToken, positionSize)
SettleFundingResult(caller, growth, lastIndex, positionSize) ==
    IF caller # CLEARING_HOUSE
    THEN [err |-> "Only ClearingHouse", index |-> lastIndex, ret |-> 0]
    ELSE [err |-> Ok, index |-> growth.cumulativeFunding,
          ret |-> FundingOwed(positionSize, growth.cumulativeFunding, lastIndex)]

SettleFunding(callers, sizes) ==
    \E caller \in callers, trader \in Traders, m \in Markets, positionSize \in sizes :
        LET r == SettleFundingResult(caller, fundingGrowth[m],
                                     traderFundingIndex[trader][m], positionSize) IN
        /\ traderFundingIndex' = [traderFundingIndex EXCEPT ![trader][m] = r.index]
        /\ last' = Call("settleFunding", caller, trader, m, "", positionSize, r.err,
                        r.ret, 0)
        /\ UNCHANGED <<tkVars, vammVars, chVars, abVars, ifVars, nCalls, fundingGrowth,
                       fundingPeriod, maxFundingRate, now, orVars>>

\* getPendingFunding(trader, baseToken, positionSize), a view.
PendingSinceStart(trader, m, positionSize) ==
    SDiv(positionSize * fundingGrowth[m].cumulativeFunding, BASIS_POINTS)
getPendingFunding(trader, m, positionSize) ==
    LET growth == fundingGrowth[m]
        lastIndex == traderFundingIndex[trader][m]
        fundingDelta == growth.cumulativeFunding - lastIndex
    IN  SDiv(positionSize * fundingDelta, BASIS_POINTS)

\* setFundingPeriod(_fundingPeriod)
SetFundingPeriodResult(caller, period) ==
    IF caller # ADMIN THEN "Only admin"
    ELSE IF ~(period > 0) THEN "Invalid period"
    ELSE Ok

SetFundingPeriod(callers, periods) ==
    \E caller \in callers, period \in periods :
        LET err == SetFundingPeriodResult(caller, period) IN
        /\ fundingPeriod' = IF err = Ok THEN period ELSE fundingPeriod
        /\ last' = Call("setFundingPeriod", caller, "", "", "", period, err, 0, 0)
        /\ UNCHANGED <<tkVars, vammVars, chVars, abVars, ifVars, nCalls, fundingGrowth,
                       traderFundingIndex, maxFundingRate, now, orVars>>

\* setMaxFundingRate(_maxFundingRate)
SetMaxFundingRateResult(caller, rate) ==
    IF caller # ADMIN THEN "Only admin"
    ELSE IF ~(rate <= BASIS_POINTS) THEN "Rate too high"
    ELSE Ok

SetMaxFundingRate(callers, rates) ==
    \E caller \in callers, rate \in rates :
        LET err == SetMaxFundingRateResult(caller, rate) IN
        /\ maxFundingRate' = IF err = Ok THEN rate ELSE maxFundingRate
        /\ last' = Call("setMaxFundingRate", caller, "", "", "", rate, err, 0, 0)
        /\ UNCHANGED <<tkVars, vammVars, chVars, abVars, ifVars, nCalls, fundingGrowth,
                       traderFundingIndex, fundingPeriod, now, orVars>>

\* The chain's clock moves on by dt seconds between two calls.
Tick(dts) ==
    \E dt \in dts :
        /\ now + dt <= DeployTime + MaxPeriods * DefaultFundingPeriod
        /\ now' = now + dt
        /\ last' = Call("tick", "", "", "", "", dt, Ok, 0, 0)
        /\ UNCHANGED <<tkVars, vammVars, chVars, abVars, ifVars, nCalls, fundingGrowth,
                       traderFundingIndex, fundingPeriod, maxFundingRate, orVars>>

----------------------------------------------------------------------------
(* Oracle *)

NoPriceFeed == [heartbeat |-> 0, decimals |-> 0, isActive |-> FALSE]

RECURSIVE Pow10(_)
Pow10(n) == IF n = 0 THEN 1 ELSE 10 * Pow10(n - 1)

\* The price of the aggregator brought to the scale of Decimal.
Normalize(price, decimals) ==
    IF decimals < ScaleDecimals THEN price * Pow10(ScaleDecimals - decimals)
    ELSE IF decimals > ScaleDecimals THEN price \div Pow10(decimals - ScaleDecimals)
    ELSE price

\* getPrice(baseToken) on the feed record feed, when the aggregator's
\* latestRoundData answers (answer, updatedAt).
GetPriceResult(feed, answer, updatedAt) ==
    LET err == IF ~feed.isActive THEN "Inactive feed"
               ELSE IF ~(answer > 0) THEN "Invalid price"
               ELSE IF now - updatedAt < 0 THEN "Panic"
               ELSE IF ~(now - updatedAt <= feed.heartbeat) THEN "Stale price"
               ELSE Ok
    IN  [err |-> err, ret |-> IF err = Ok THEN Normalize(answer, feed.decimals) ELSE 0]

\* updatePrice(baseToken), callable by anyone.
UpdatePrice(answers, ages) ==
    \E m \in Markets, answer \in answers, age \in ages :
        LET r == GetPriceResult(priceFeeds[m], answer, now - age) IN
        /\ cachedPrices' = IF r.err = Ok THEN [cachedPrices EXCEPT ![m] = r.ret]
                           ELSE cachedPrices
        /\ lastUpdateTime' = IF r.err = Ok THEN [lastUpdateTime EXCEPT ![m] = now]
                             ELSE lastUpdateTime
        /\ last' = Call("updatePrice", "t1", "", m, "", answer, r.err, r.ret, age)
        /\ UNCHANGED <<tkVars, vammVars, chVars, abVars, ifVars, fdVars, nCalls, priceFeeds>>

\* getIndexPrice(baseToken), a view that returns getPrice(baseToken): the
\* call changes nothing, its outcome is recorded.
GetIndexPrice(answers, ages) ==
    \E m \in Markets, answer \in answers, age \in ages :
        LET r == GetPriceResult(priceFeeds[m], answer, now - age) IN
        /\ last' = Call("getIndexPrice", "t1", "", m, "", answer, r.err, r.ret, age)
        /\ UNCHANGED <<tkVars, vammVars, chVars, abVars, ifVars, fdVars, nCalls, orVars>>

\* addPriceFeed(baseToken, feedAddress, heartbeat): the aggregator at
\* feedAddress ("" is the zero address) reports decimals and answers
\* (answer, updatedAt) to the updatePrice the function ends with.
AddPriceFeedResult(caller, feedAddress, heartbeat, decimals, answer, updatedAt) ==
    LET feed == [heartbeat |-> heartbeat, decimals |-> decimals, isActive |-> TRUE]
        r == GetPriceResult(feed, answer, updatedAt)
        err == IF caller # ADMIN THEN "Only admin"
               ELSE IF feedAddress = "" THEN "Invalid feed"
               ELSE IF ~(heartbeat > 0) THEN "Invalid heartbeat"
               ELSE r.err
    IN  [err |-> err, feed |-> feed, ret |-> IF err = Ok THEN r.ret ELSE 0]

AddPriceFeed(callers, feeds, heartbeats, decimalss, answers, ages) ==
    \E caller \in callers, m \in Markets, feedAddress \in feeds,
       heartbeat \in heartbeats, decimals \in decimalss,
       answer \in answers, age \in ages :
        LET r == AddPriceFeedResult(caller, feedAddress, heartbeat, decimals,
                                    answer, now - age) IN
        /\ priceFeeds' = IF r.err = Ok THEN [priceFeeds EXCEPT ![m] = r.feed]
                         ELSE priceFeeds
        /\ cachedPrices' = IF r.err = Ok THEN [cachedPrices EXCEPT ![m] = r.ret]
                           ELSE cachedPrices
        /\ lastUpdateTime' = IF r.err = Ok THEN [lastUpdateTime EXCEPT ![m] = now]
                             ELSE lastUpdateTime
        /\ last' = Call("addPriceFeed", caller, "", m, "", heartbeat, r.err, r.ret, age)
        /\ UNCHANGED <<tkVars, vammVars, chVars, abVars, ifVars, fdVars, nCalls>>

\* removePriceFeed(baseToken)
RemovePriceFeed(callers) ==
    \E caller \in callers, m \in Markets :
        /\ priceFeeds' = IF caller = ADMIN
                         THEN [priceFeeds EXCEPT ![m].isActive = FALSE]
                         ELSE priceFeeds
        /\ last' = Call("removePriceFeed", caller, "", m, "", 0,
                        IF caller = ADMIN THEN Ok ELSE "Only admin", 0, 0)
        /\ UNCHANGED <<tkVars, vammVars, chVars, abVars, ifVars, fdVars, nCalls,
                       cachedPrices, lastUpdateTime>>

\* The comparison of isPriceStale: whether the time since the last update
\* is beyond the heartbeat.
HeartbeatReached(elapsed, heartbeat) == elapsed >= heartbeat
HeartbeatExceeded(elapsed, heartbeat) == elapsed > heartbeat

\* isPriceStale(baseToken), a view.
isPriceStale(m) ==
    IF ~priceFeeds[m].isActive THEN TRUE
    ELSE HeartbeatExceeded(now - lastUpdateTime[m], priceFeeds[m].heartbeat)

\* getCachedPrice(baseToken) and getTwapPrice(baseToken, interval), views.
getCachedPrice(m) == cachedPrices[m]

----------------------------------------------------------------------------
(* Collateral token: the ERC-20 the router moves *)

\* transferFrom(from, to, amount) as the router calls it: the allowance the
\* holder gave the router is spent first, then the balance is moved.
\* approved tells whether that allowance covers the amount.
TransferFromResult(bal, approved, amount) ==
    IF ~approved THEN "ERC20: insufficient allowance"
    ELSE IF bal < amount THEN "ERC20: transfer amount exceeds balance"
    ELSE Ok

\* transfer(to, amount) out of a balance bal.
TransferResult(bal, amount) ==
    IF bal < amount THEN "ERC20: transfer amount exceeds balance" ELSE Ok

\* The balances after amount has moved from one holder to another.
Moved(from, to, amount) ==
    [h \in Holders |->
        IF from = to THEN tokenBalance[h]
        ELSE IF h = from THEN tokenBalance[h] - amount
        ELSE IF h = to THEN tokenBalance[h] + amount
        ELSE tokenBalance[h]]

----------------------------------------------------------------------------
(* ExchangeRouter *)

\* The deadline check of the router's open and close.
DeadlineReached(timeNow, deadline) == timeNow >= deadline
DeadlinePassed(timeNow, deadline) == timeNow > deadline

\* openPositionWithCollateral(baseToken, isLong, collateralAmount, leverage,
\* minBaseAmount, deadline) called by a trader holding bal tokens.  The
\* router is the sender of the call to ClearingHouse.openPosition, so pos is
\* the position the ClearingHouse keeps for the router's address.
OpenPositionWithCollateralResult(pos, market, bal, approved, isLong, collateralAmount, leverage, minBaseAmount, deadline) ==
    LET t == TransferFromResult(bal, approved, collateralAmount)
        r == OpenPositionResult(pos, market, isLong, collateralAmount, leverage,
                                minBaseAmount)
        err == IF DeadlinePassed(now, deadline) THEN "Deadline exceeded"
               ELSE IF ~(collateralAmount > 0) THEN "Invalid collateral"
               ELSE IF ~(leverage > 0 /\ leverage <= 10000) THEN "Invalid leverage"
               ELSE IF t # Ok THEN t
               ELSE r.err
    IN  [err |-> err,
         pos |-> IF err = Ok THEN r.pos ELSE pos,
         ret |-> IF err = Ok THEN r.ret ELSE 0]

OpenPositionWithCollateral(amounts, leverages, minBases, deadlines, approvals) ==
    \E caller \in Traders, m \in Markets, isLong \in BOOLEAN,
       collateralAmount \in amounts, leverage \in leverages,
       minBaseAmount \in minBases, deadline \in deadlines, approved \in approvals :
        LET r == OpenPositionWithCollateralResult(positions[ROUTER][m], markets[m],
                     tokenBalance[caller], approved, isLong, collateralAmount,
                     leverage, minBaseAmount, deadline) IN
        /\ positions' = Stored(ROUTER, m, r.pos)
        /\ tokenBalance' = IF r.err = Ok THEN Moved(caller, ROUTER, collateralAmount)
                           ELSE tokenBalance
        /\ last' = Call("openPositionWithCollateral", caller, caller, m, Dir(isLong),
                        collateralAmount, r.err, r.ret, deadline)
        /\ r.err = Ok => nCalls < MaxCalls
        /\ nCalls' = IF r.err = Ok THEN nCalls + 1 ELSE nCalls
        /\ UNCHANGED <<markets, vammVars, abVars, ifVars, fdVars, orVars>>

\* closePositionToCollateral(baseToken, closeRatio, minQuoteAmount, deadline):
\* the router closes the position kept for its own address and pays a
\* positive PnL out of the tokens it holds (routerBal).
ClosePositionToCollateralResult(pos, routerBal, closeRatio, minQuoteAmount, deadline) ==
    LET c == ClosePositionResult(pos, closeRatio)
        collateralOut == IF c.ret > 0 THEN c.ret ELSE 0
        err == IF DeadlinePassed(now, deadline) THEN "Deadline exceeded"
               ELSE IF ~(closeRatio > 0 /\ closeRatio <= BASIS_POINTS) THEN "Invalid ratio"
               ELSE IF c.err # Ok THEN c.err
               ELSE IF ~(collateralOut >= minQuoteAmount) THEN "Slippage exceeded"
               ELSE IF collateralOut > 0 THEN TransferResult(routerBal, collateralOut)
               ELSE Ok
    IN  [err |-> err,
         pos |-> IF err = Ok THEN c.pos ELSE pos,
         ret |-> IF err = Ok THEN c.ret ELSE 0,
         paid |-> IF err = Ok THEN collateralOut ELSE 0]

ClosePositionToCollateral(ratios, minQuotes, deadlines) ==
    \E caller \in Traders, m \in Markets, closeRatio \in ratios,
       minQuoteAmount \in minQuotes, deadline \in deadlines :
        LET r == ClosePositionToCollateralResult(positions[ROUTER][m],
                     tokenBalance[ROUTER], closeRatio, minQuoteAmount, deadline) IN
        /\ positions' = Stored(ROUTER, m, r.pos)
        /\ tokenBalance' = Moved(ROUTER, caller, r.paid)
        /\ last' = Call("closePositionToCollateral", caller, caller, m, "",
                        closeRatio, r.err, r.ret, deadline)
        /\ r.err = Ok => nCalls < MaxCalls
        /\ nCalls' = IF r.err = Ok THEN nCalls + 1 ELSE nCalls
        /\ UNCHANGED <<markets, vammVars, abVars, ifVars, fdVars, orVars>>

\* addCollateral(amount): the tokens go to the AccountBalance contract, then
\* the router, as sender, calls AccountBalance.deposit for the trader.
AddCollateralResult(bal, tokens, approved, amount) ==
    LET t == TransferFromResult(tokens, approved, amount)
        d == DepositResult(ROUTER, bal, amount)
        err == IF ~(amount > 0) THEN "Invalid amount"
               ELSE IF t # Ok THEN t
               ELSE d.err
    IN  [err |-> err, bal |-> IF err = Ok THEN d.bal ELSE bal]

AddCollateral(amounts, approvals) ==
    \E caller \in Traders, amount \in amounts, approved \in approvals :
        LET r == AddCollateralResult(collateral[caller], tokenBalance[caller],
                                     approved, amount) IN
        /\ r.bal <= MaxBalance
        /\ collateral' = [collateral EXCEPT ![caller] = r.bal]
        /\ tokenBalance' = IF r.err = Ok THEN Moved(caller, ACCOUNT_BALANCE, amount)
                           ELSE tokenBalance
        /\ last' = Call("addCollateral", caller, caller, "", "", amount, r.err, 0, 0)
        /\ UNCHANGED <<vammVars, chVars, ifVars, nCalls, fdVars, orVars>>

\* removeCollateral(amount): the router, as sender, calls
\* AccountBalance.withdraw for the trader, then pays out of its own tokens.
RemoveCollateralResult(bal, routerBal, amount) ==
    LET w == WithdrawResult(ROUTER, bal, amount)
        err == IF ~(amount > 0) THEN "Invalid amount"
               ELSE IF w.err # Ok THEN w.err
               ELSE TransferResult(routerBal, amount)
    IN  [err |-> err, bal |-> IF err = Ok THEN w.bal ELSE bal]

RemoveCollateral(amounts) ==
    \E caller \in Traders, amount \in amounts :
        LET r == RemoveCollateralResult(collateral[caller], tokenBalance[ROUTER],
                                        amount) IN
        /\ collateral' = [collateral EXCEPT ![caller] = r.bal]
        /\ tokenBalance' = IF r.err = Ok THEN Moved(ROUTER, caller, amount)
                           ELSE tokenBalance
        /\ last' = Call("removeCollateral", caller, caller, "", "", amount, r.err, 0, 0)
        /\ UNCHANGED <<vammVars, chVars, ifVars, nCalls, fdVars, orVars>>

\* closePositionAndWithdraw(baseToken, minReceived): after the full close the
\* router calls getCollateral on AccountBalance, a function that contract
\* does not have, so the call reverts and with it the whole transaction.
ClosePositionAndWithdrawResult(pos) ==
    LET c == ClosePositionResult(pos, BASIS_POINTS)
    IN  IF c.err # Ok THEN c.err ELSE "Reverted without a reason"

ClosePositionAndWithdraw(minReceiveds) ==
    \E caller \in Traders, m \in Markets, minReceived \in minReceiveds :
        /\ last' = Call("closePositionAndWithdraw", caller, caller, m, "", minReceived,
                        ClosePositionAndWithdrawResult(positions[ROUTER][m]), 0, 0)
        /\ UNCHANGED <<tkVars, vammVars, chVars, abVars, ifVars, nCalls, fdVars, orVars>>

----------------------------------------------------------------------------
(* Construction *)

Init ==
    /\ virtualBase = InitBase
    /\ virtualQuote = InitQuote
    /\ k = mulD(InitBase, InitQuote)
    /\ isPaused = FALSE
    /\ positions = [t \in Accounts |-> [m \in Markets |-> NoPosition]]
    /\ markets = [m \in Markets |-> NoMarket]
    /\ collateral = [t \in Traders |-> 0]
    /\ totalBalance = 0
    /\ fundingGrowth = [m \in Markets |-> NoFundingGrowth]
    /\ traderFundingIndex = [t \in Traders |-> [m \in Markets |-> 0]]
    /\ fundingPeriod = DefaultFundingPeriod
    /\ maxFundingRate = DefaultMaxFundingRate
    /\ now = DeployTime
    /\ priceFeeds = [m \in Markets |-> NoPriceFeed]
    /\ cachedPrices = [m \in Markets |-> 0]
    /\ lastUpdateTime = [m \in Markets |-> 0]
    /\ tokenBalance = [h \in Holders |-> IF h \in Traders THEN InitTokens ELSE 0]
    /\ nCalls = 0
    /\ last = Call("constructor", ADMIN, "", "", "", 0, Ok, 0, 0)

----------------------------------------------------------------------------
(* Callers: the authorised address of each contract and an outsider *)

AdminOrNot == {ADMIN, "t1"}
ClearingHouseOrNot == {CLEARING_HOUSE, "t1"}

----------------------------------------------------------------------------
(* The vAMM on its own *)

VammSwapAmounts == {0, 300, 700}
VammMinOuts == {0, 131}
VammReserves == {0, 500, 1500}

NextVamm ==
    \/ Swap(ClearingHouseOrNot, VammSwapAmounts, VammMinOuts)
    \/ AdjustReserves(AdminOrNot, VammReserves)
    \/ SetPaused(AdminOrNot)

SpecVamm == Init /\ [][NextVamm]_vars

Product == mulD(virtualBase, virtualQuote)
LargerReserve == IF virtualBase >= virtualQuote THEN virtualBase ELSE virtualQuote

\* C1 (as stated): after any sequence of successful swaps the product of the
\* reserves equals the stored constant exactly,
\* virtualBase * virtualQuote / UNIT = k.
C1_ProductEqualsK == Product = k

\* C1 (amended): after any sequence of successful swaps the product of the
\* reserves never exceeds the stored constant k, and truncation leaves it
\* short of k by at most (larger reserve / UNIT) + 1.
C1_ProductAtMostK ==
    /\ Product <= k
    /\ k - Product <= LargerReserve \div UNIT + 1

\* A successful swap after which the product has fallen short of k.
C1_Witness == last.op = "swap" /\ last.err = Ok /\ Product < k

\* The output of the curve for amountIn, written out: the fee
\* amountIn * 30 / 10000 comes off amountIn first, then the reserve that
\* receives grows by the rest, the other becomes k / (that reserve), and the
\* output is what the other reserve lost.
CurveOut(isLong, amountIn, vb, vq, kk) ==
    LET net == amountIn - (amountIn * 30) \div 10000 IN
    IF isLong THEN vb - (kk * UNIT) \div (vq + net)
    ELSE vq - (kk * UNIT) \div (vb + net)

\* C28: a swap by the ClearingHouse, not paused, with amountIn > 0 fails with
\* "Slippage exceeded" whenever the computed amountOut < minAmountOut;
\* otherwise it commits the new reserves and returns amountOut; every failed
\* swap leaves virtualBase, virtualQuote and k unchanged.
C28_SlippageGuard ==
    [][last'.op = "swap" =>
        LET isLong == last'.dir = "long"
            out == CurveOut(isLong, last'.amt, virtualBase, virtualQuote, k)
            net == last'.amt - (last'.amt * 30) \div 10000
        IN  /\ (last'.caller = CLEARING_HOUSE /\ ~isPaused /\ last'.amt > 0 /\ out >= 0) =>
                 IF out < last'.out
                 THEN last'.err = "Slippage exceeded"
                 ELSE /\ last'.err = Ok
                      /\ last'.ret = out
                      /\ virtualBase' = IF isLong THEN virtualBase - out ELSE virtualBase + net
                      /\ virtualQuote' = IF isLong THEN virtualQuote + net ELSE virtualQuote - out
            /\ last'.err # Ok =>
                 virtualBase' = virtualBase /\ virtualQuote' = virtualQuote
            /\ k' = k]_vars

\* A swap rejected by the slippage guard.
C28_Witness ==
    /\ last.op = "swap" /\ last.err = "Slippage exceeded"
    /\ CurveOut(last.dir = "long", last.amt, virtualBase, virtualQuote, k) < last.out
    /\ CurveOut(last.dir = "long", last.amt, virtualBase, virtualQuote, k) > 0

\* C29: while the vAMM is paused every swap by the ClearingHouse fails with
\* "Trading paused" and leaves reserves and k unchanged, while getAmountOut
\* still returns a value; when the admin unpauses, the reserves are what they
\* were and swaps succeed on them.
C29_Paused ==
    [][/\ (last'.op = "swap" /\ last'.caller = CLEARING_HOUSE /\ isPaused) =>
            /\ last'.err = "Trading paused"
            /\ virtualBase' = virtualBase /\ virtualQuote' = virtualQuote /\ k' = k
       /\ isPaused =>
            \A isLong \in BOOLEAN, a \in VammSwapAmounts :
                /\ getAmountOut(isLong, a).err = Ok
                /\ a > 0 => getAmountOut(isLong, a).ret
                               = CurveOut(isLong, a, virtualBase, virtualQuote, k)
       /\ (isPaused /\ ~isPaused') =>
            /\ last'.op = "setPaused" /\ last'.caller = ADMIN
            /\ virtualBase' = virtualBase /\ virtualQuote' = virtualQuote /\ k' = k
            /\ \A isLong \in BOOLEAN, a \in VammSwapAmounts \ {0} :
                  SwapResult(CLEARING_HOUSE, isLong, a, 0)'.err = Ok]_vars

\* A swap by the ClearingHouse rejected because trading is paused.
C29_Witness ==
    /\ last.op = "swap" /\ last.caller = CLEARING_HOUSE
    /\ last.err = "Trading paused" /\ isPaused

\* C30: in every state and for every amountIn > 0, getAmountOut returns the
\* output of the curve after the fee amountIn * 30 / 10000, and a swap
\* executed in that state returns exactly what getAmountOut returned there.
C30_SwapMatchesQuote ==
    [][/\ \A isLong \in BOOLEAN, a \in VammSwapAmounts \ {0} :
            /\ getAmountOut(isLong, a).err = Ok
            /\ getAmountOut(isLong, a).ret
                  = CurveOut(isLong, a, virtualBase, virtualQuote, k)
       /\ (last'.op = "swap" /\ last'.err = Ok) =>
            last'.ret = getAmountOut(last'.dir = "long", last'.amt).ret]_vars

\* A successful swap that paid a fee and returned an output.
C30_Witness ==
    /\ last.op = "swap" /\ last.err = Ok /\ last.ret > 0
    /\ (last.amt * 30) \div 10000 > 0

\* C31: the amountOut of every successful swap is rounded down: it never
\* exceeds the exact constant-product output
\* reserveOut - k / (reserveIn + amountInNet).  Both sides are multiplied by
\* reserveIn + amountInNet, so the comparison is exact.
C31_AmountOutRoundedDown ==
    [][(last'.op = "swap" /\ last'.err = Ok) =>
        LET isLong == last'.dir = "long"
            net == last'.amt - (last'.amt * 30) \div 10000
            reserveIn == IF isLong THEN virtualQuote ELSE virtualBase
            reserveOut == IF isLong THEN virtualBase ELSE virtualQuote
        IN  last'.ret * (reserveIn + net)
               <= reserveOut * (reserveIn + net) - k * UNIT]_vars

----------------------------------------------------------------------------
(* The ClearingHouse on its own *)

ChCaps == {10000, 4000000}
ChAmounts == {20}
ChLeverages == {10000, 2000000, 4000000}
ChMinBases == {0, 50}
ChRatios == {0, 3333, 10000, 10001}

NextCH ==
    \/ AddMarket(AdminOrNot, ChCaps)
    \/ OpenPosition(ChAmounts, ChLeverages, ChMinBases)
    \/ ClosePosition(ChRatios)
    \/ Liquidate

SpecCH == Init /\ [][NextCH]_vars

\* The margin ratio of a position as liquidate computes it, in basis points.
PositionValue(pos) == (Abs(pos.size) * pos.entryPrice) \div UNIT
MarginRatio(pos) == (pos.collateral * BASIS_POINTS) \div PositionValue(pos)

\* C2: in every reachable state, for every (trader, market) pair, size = 0
\* implies collateral = 0 and openNotional = 0.
C2_NoSizeNoCollateral ==
    \A t \in Traders, m \in Markets :
        positions[t][m].size = 0 =>
            positions[t][m].collateral = 0 /\ positions[t][m].openNotional = 0

\* C4: liquidate succeeds only if the position's margin ratio is strictly
\* below the market's maintenance margin ratio; at the maintenance ratio or
\* above it the call is rejected with "Not liquidatable" and the position is
\* left unchanged.
C4_LiquidateStrictlyBelow ==
    [][last'.op = "liquidate" =>
        LET pos == positions[last'.trader][last'.market]
            mmr == markets[last'.market].maintenanceMarginRatio IN
        /\ last'.err = Ok =>
              /\ MarginRatio(pos) < mmr
              /\ positions'[last'.trader][last'.market] = NoPosition
        /\ (pos.size # 0 /\ PositionValue(pos) > 0 /\ MarginRatio(pos) >= mmr) =>
              /\ last'.err = "Not liquidatable"
              /\ positions' = positions]_vars

\* A liquidation rejected on a position exactly at the maintenance ratio.
C4_Witness ==
    /\ last.op = "liquidate" /\ last.err = "Not liquidatable"
    /\ MarginRatio(positions[last.trader][last.market])
          = markets[last.market].maintenanceMarginRatio

\* C10: opening a position and immediately closing it fully yields a
\* realizedPnl equal to the negative of the two trading fees (the fee of the
\* opening trade plus the fee of the closing trade), within one unit.
C10_RoundTripCostsTwoFees ==
    [][(/\ last.op = "openPosition" /\ last.err = Ok
        /\ last'.op = "closePosition" /\ last'.err = Ok
        /\ last'.caller = last.caller /\ last'.market = last.market
        /\ last'.amt = BASIS_POINTS
        /\ Abs(positions[last.caller][last.market].size) = last.ret
        /\ positions[last.caller][last.market].collateral = last.amt
        /\ positions[last.caller][last.market].openNotional
              = (last.amt * last.out) \div BASIS_POINTS)
       => Abs(last'.ret
              + TradingFee(positions[last.caller][last.market].openNotional)
              + TradingFee(last'.out)) <= 1]_vars

\* C12: a successful openPosition on a (trader, market) pair with no position
\* returns baseAmount = collateral * leverage / 10000 and stores
\* size = +baseAmount for a long and -baseAmount for a short, the collateral
\* passed in, and openNotional = collateral * leverage / 10000.
C12_OpenFreshPosition ==
    [][(/\ last'.op = "openPosition" /\ last'.err = Ok
        /\ positions[last'.caller][last'.market].size = 0) =>
        LET notional == (last'.amt * last'.out) \div BASIS_POINTS
            pos == positions'[last'.caller][last'.market]
        IN  /\ last'.ret = notional
            /\ pos.size = IF last'.dir = "long" THEN notional ELSE -notional
            /\ pos.collateral = last'.amt
            /\ pos.openNotional = notional]_vars

\* The first position of a behaviour, opened short.
C12_Witness ==
    /\ last.op = "openPosition" /\ last.err = Ok /\ last.dir = "short"
    /\ nCalls = 1
    /\ positions[last.caller][last.market].size = -last.ret
    /\ last.ret > 0

\* C13: openPosition succeeds only on an active market and with
\* leverage <= maxLeverage; on a market that is not active it fails with
\* "Market not active", on an active market with leverage > maxLeverage it
\* fails with "Leverage too high" (and with that reason only then), and both
\* failures leave every position and every balance unchanged.
C13_OpenChecksMarketAndLeverage ==
    [][last'.op = "openPosition" =>
        LET market == markets[last'.market]
            leverage == last'.out
        IN  /\ last'.err = Ok => market.isActive /\ leverage <= market.maxLeverage
            /\ ~market.isActive => last'.err = "Market not active"
            /\ (market.isActive /\ leverage > market.maxLeverage)
                   => last'.err = "Leverage too high"
            /\ last'.err = "Leverage too high" => leverage > market.maxLeverage
            /\ last'.err \in {"Market not active", "Leverage too high"}
                   => positions' = positions /\ collateral' = collateral]_vars

\* A position opened with leverage equal to the market's cap.
C13_Witness ==
    /\ last.op = "openPosition" /\ last.err = Ok
    /\ last.out = markets[last.market].maxLeverage
    /\ positions[last.caller][last.market].size # 0

\* C16: closePosition succeeds only on an open position and with
\* 0 < closeRatio <= 10000; it fails with "No position" when size = 0 and
\* with "Invalid ratio" when closeRatio is 0 or above 10000, and a failed
\* call leaves the position unchanged.
C16_CloseRatioInRange ==
    [][last'.op = "closePosition" =>
        LET pos == positions[last'.caller][last'.market]
            closeRatio == last'.amt
        IN  /\ last'.err = Ok =>
                  pos.size # 0 /\ closeRatio > 0 /\ closeRatio <= BASIS_POINTS
            /\ pos.size = 0 => last'.err = "No position"
            /\ (pos.size # 0 /\ (closeRatio = 0 \/ closeRatio > BASIS_POINTS))
                   => last'.err = "Invalid ratio"
            /\ last'.err # Ok => positions' = positions]_vars

\* C17: after a successful closePosition with closeRatio = 10000 the position
\* is deleted: size, collateral and openNotional are exactly 0 whatever opens
\* and partial closes came before, and any later openPosition gives what it
\* gives on a position that never existed.
C17_FullCloseDeletes ==
    [][(last'.op = "closePosition" /\ last'.err = Ok /\ last'.amt = BASIS_POINTS) =>
        LET pos == positions'[last'.caller][last'.market] IN
        /\ pos.size = 0 /\ pos.collateral = 0 /\ pos.openNotional = 0
        /\ \A isLong \in BOOLEAN, a \in ChAmounts, l \in ChLeverages, mb \in ChMinBases :
              OpenPositionResult(pos, markets'[last'.market], isLong, a, l, mb)
                = OpenPositionResult(NoPosition, markets'[last'.market], isLong, a, l, mb)]_vars

\* A full close of a position that a partial close had left with a size no
\* sequence of opens gives.
C17_Witness ==
    /\ last.op = "closePosition" /\ last.err = Ok /\ last.amt = BASIS_POINTS
    /\ last.out % 20 # 0
    /\ positions[last.caller][last.market] = NoPosition

\* C19: a successful partial close with 0 < closeRatio < 10000 reduces |size|
\* by closeSize = |size| * closeRatio / 10000 without changing its sign,
\* leaves size # 0, and scales collateral and openNotional to their previous
\* value * (10000 - closeRatio) / 10000, rounded down.
C19_PartialClose ==
    [][(/\ last'.op = "closePosition" /\ last'.err = Ok
        /\ last'.amt > 0 /\ last'.amt < BASIS_POINTS) =>
        LET old == positions[last'.caller][last'.market]
            new == positions'[last'.caller][last'.market]
            closeSize == (Abs(old.size) * last'.amt) \div BASIS_POINTS
        IN  /\ Abs(new.size) = Abs(old.size) - closeSize
            /\ (new.size > 0) = (old.size > 0)
            /\ new.size # 0
            /\ new.collateral
                  = (old.collateral * (BASIS_POINTS - last'.amt)) \div BASIS_POINTS
            /\ new.openNotional
                  = (old.openNotional * (BASIS_POINTS - last'.amt)) \div BASIS_POINTS]_vars

\* A short position partly closed, its collateral rounded down by the scaling.
C19_Witness ==
    /\ last.op = "closePosition" /\ last.err = Ok
    /\ last.amt > 0 /\ last.amt < BASIS_POINTS /\ last.out > 0
    /\ positions[last.caller][last.market].size < 0
    /\ positions[last.caller][last.market].collateral % 10 # 0

\* C33: AccountBalance.isLiquidatable(trader) is true exactly when the margin
\* ratio of the trader's position is strictly below the maintenance margin
\* ratio, never at the maintenance ratio itself, and it agrees with whether
\* liquidate accepts the trader's position.
C33_IsLiquidatableAgrees ==
    [][/\ \A t \in Traders, m \in Markets :
            (positions[t][m].size # 0 /\ PositionValue(positions[t][m]) > 0) =>
                /\ isLiquidatable(t)
                      <=> MarginRatio(positions[t][m]) < MAINTENANCE_MARGIN_RATIO
                /\ MarginRatio(positions[t][m]) = MAINTENANCE_MARGIN_RATIO
                      => ~isLiquidatable(t)
       /\ last'.op = "liquidate" =>
            (isLiquidatable(last'.trader) <=> last'.err = Ok)]_vars

----------------------------------------------------------------------------
(* The ledgers on their own: AccountBalance and InsuranceFund *)

LedgerAmounts == {0, 10, 20}
LedgerPnls == {-30, -10, 0, 10}
LedgerDebts == {0, 10, 20, 30}

NextLedger ==
    \/ Deposit(ClearingHouseOrNot, LedgerAmounts)
    \/ Withdraw(ClearingHouseOrNot, LedgerAmounts)
    \/ RealizePnl(ClearingHouseOrNot, LedgerPnls)
    \/ AddFund({"t1"}, LedgerAmounts)
    \/ CoverBadDebt(ClearingHouseOrNot, LedgerDebts)
    \/ ReceiveLiquidationFee(ClearingHouseOrNot, LedgerAmounts)
    \/ WithdrawFund(AdminOrNot, LedgerAmounts)

SpecLedger == Init /\ [][NextLedger]_vars

\* C8: realizePnl(trader, pnl) sets the trader's balance to balance + pnl
\* when pnl > 0 and to max(0, balance - |pnl|) otherwise; no balance is ever
\* negative, and no other trader's balance changes.
C8_RealizePnl ==
    [][/\ \A t \in Traders : collateral'[t] >= 0
       /\ (last'.op = "realizePnl" /\ last'.err = Ok) =>
            /\ collateral'[last'.trader] =
                  IF last'.amt > 0 THEN collateral[last'.trader] + last'.amt
                  ELSE Max0(collateral[last'.trader] - Abs(last'.amt))
            /\ \A o \in Traders \ {last'.trader} :
                  collateral'[o] = collateral[o]]_vars

\* A realized loss has left one trader at zero while another holds a balance.
C8_Witness ==
    /\ last.op = "realizePnl" /\ last.err = Ok /\ last.amt < 0
    /\ collateral[last.trader] = 0
    /\ \E o \in Traders \ {last.trader} : collateral[o] > 0

----------------------------------------------------------------------------
(* The whole system, each contract called by its authorised caller *)

SysCaps == {4000000}
SysAmounts == {20}
SysLeverages == {2000000, 4000000}
SysMinBases == {0}
SysRatios == {10000}
SysSwapAmounts == {700}
SysMinOuts == {0}
SysLedgerAmounts == {20}
SysPnls == {-30}
SysDebts == {10, 20}

Next ==
    \/ AddMarket({ADMIN}, SysCaps)
    \/ OpenPosition(SysAmounts, SysLeverages, SysMinBases)
    \/ ClosePosition(SysRatios)
    \/ Liquidate
    \/ Swap({CLEARING_HOUSE}, SysSwapAmounts, SysMinOuts)
    \/ Deposit({CLEARING_HOUSE}, SysLedgerAmounts)
    \/ Withdraw({CLEARING_HOUSE}, SysLedgerAmounts)
    \/ RealizePnl({CLEARING_HOUSE}, SysPnls)
    \/ AddFund({"t1"}, SysLedgerAmounts)
    \/ CoverBadDebt({CLEARING_HOUSE}, SysDebts)

Spec == Init /\ [][Next]_vars

\* The price of the vAMM with reserves vb, vq, and the margin ratio of a
\* position valued at that price.
SpotPrice(vb, vq) == divD(vq, vb)
MarkValue(pos, vb, vq) == (Abs(pos.size) * SpotPrice(vb, vq)) \div UNIT
MarkMarginRatio(pos, vb, vq) ==
    (pos.collateral * BASIS_POINTS) \div MarkValue(pos, vb, vq)

\* The loss of a position closed at the vAMM price, and the part of it that
\* its collateral does not cover.
MarkLoss(pos, vb, vq) ==
    IF pos.size > 0 THEN pos.openNotional - MarkValue(pos, vb, vq)
    ELSE MarkValue(pos, vb, vq) - pos.openNotional
BadDebt(pos, vb, vq) == Max0(MarkLoss(pos, vb, vq) - pos.collateral)

\* Whether some open position of trader t is below the initial margin
\* requirement when t's free collateral is remaining.
BelowInitialMargin(t, remaining) ==
    \E m \in Markets :
        /\ positions[t][m].size # 0
        /\ (remaining + positions[t][m].collateral) * BASIS_POINTS
              < INITIAL_MARGIN_RATIO * positions[t][m].openNotional

\* C3: withdraw never succeeds when, after the withdrawal, an open position
\* of the trader would be below the initial margin requirement.
C3_WithdrawKeepsInitialMargin ==
    [][(last'.op = "withdraw" /\ last'.err = Ok) =>
        ~BelowInitialMargin(last'.trader, collateral[last'.trader] - last'.amt)]_vars

\* C5: the margin ratio liquidate checks follows the vAMM price: once a swap
\* has moved the price so that a position that was at or above maintenance
\* is below it, liquidate accepts that position.
C5_LiquidationFollowsMarkPrice ==
    [][\A t \in Traders, m \in Markets :
        (/\ last'.op = "swap" /\ last'.err = Ok
         /\ positions[t][m].size # 0
         /\ MarkValue(positions[t][m], virtualBase, virtualQuote) > 0
         /\ MarkValue(positions[t][m], virtualBase', virtualQuote') > 0
         /\ MarkMarginRatio(positions[t][m], virtualBase, virtualQuote)
               >= markets[m].maintenanceMarginRatio
         /\ MarkMarginRatio(positions[t][m], virtualBase', virtualQuote')
               < markets[m].maintenanceMarginRatio)
        => LiquidateResult(positions'[t][m], markets'[m]).err = Ok]_vars

\* C6: after every successful liquidate the caller's balance is higher than
\* before by exactly collateral * liquidationFeeRatio / 10000 of the
\* liquidated position.
C6_LiquidatorIsPaid ==
    [][(last'.op = "liquidate" /\ last'.err = Ok) =>
        collateral'[last'.caller] = collateral[last'.caller]
            + (positions[last'.trader][last'.market].collateral
                 * markets[last'.market].liquidationFeeRatio) \div BASIS_POINTS]_vars

\* C7: when a liquidated position's loss exceeds its collateral, the excess
\* is passed to InsuranceFund.coverBadDebt within the same liquidate call,
\* which reduces the fund's balance by the bad debt (down to zero).
C7_BadDebtReachesFund ==
    [][(/\ last'.op = "liquidate" /\ last'.err = Ok
        /\ BadDebt(positions[last'.trader][last'.market], virtualBase, virtualQuote) > 0)
       => totalBalance' = Max0(totalBalance
              - BadDebt(positions[last'.trader][last'.market], virtualBase, virtualQuote))]_vars

\* C11: the size a successful openPosition returns is the amountOut of a
\* vAMM swap of notional = collateral * leverage / 10000 made in the same
\* transition, and the vAMM reserves move by that swap.
C11_SizeIsSwapOutput ==
    [][(last'.op = "openPosition" /\ last'.err = Ok) =>
        LET notional == (last'.amt * last'.out) \div BASIS_POINTS
            c == CurveResult(last'.dir = "long", notional, virtualBase, virtualQuote, k)
        IN  /\ last'.ret = c.out
            /\ Abs(positions'[last'.caller][last'.market].size
                     - positions[last'.caller][last'.market].size) = c.out
            /\ virtualBase' = c.base
            /\ virtualQuote' = c.quote]_vars

\* C14: a successful openPosition with collateralIn takes exactly collateralIn
\* out of the caller's free collateral, and never succeeds with collateralIn
\* above the caller's free collateral.
C14_OpenDebitsFreeCollateral ==
    [][(last'.op = "openPosition" /\ last'.err = Ok) =>
        /\ last'.amt <= collateral[last'.caller]
        /\ collateral'[last'.caller] = collateral[last'.caller] - last'.amt]_vars

\* C18: after a successful full close (closeRatio = 10000) the caller's free
\* collateral is the prior free collateral plus the position's collateral
\* plus the realized PnL, floored at zero.
C18_FullCloseReturnsCollateral ==
    [][(last'.op = "closePosition" /\ last'.err = Ok /\ last'.amt = BASIS_POINTS) =>
        collateral'[last'.caller] =
            Max0(collateral[last'.caller]
                 + positions[last'.caller][last'.market].collateral + last'.ret)]_vars

Min(a, b) == IF a <= b THEN a ELSE b

\* C9: coverBadDebt(trader, debt) with fund balance b never fails for lack of
\* funds: it leaves max(0, b - debt), pays out min(b, debt) and reports full
\* coverage exactly when b >= debt; a liquidation whose margin check passes
\* completes and removes the position whatever the fund holds.
C9_CoverBadDebt ==
    [][/\ (last'.op = "coverBadDebt" /\ last'.caller = CLEARING_HOUSE) =>
            /\ last'.err = Ok
            /\ totalBalance' = Max0(totalBalance - last'.amt)
            /\ last'.out = Min(totalBalance, last'.amt)
            /\ (last'.ret = 1) <=> (totalBalance >= last'.amt)
       /\ (/\ last'.op = "liquidate"
           /\ positions[last'.trader][last'.market].size # 0
           /\ PositionValue(positions[last'.trader][last'.market]) > 0
           /\ MarginRatio(positions[last'.trader][last'.market])
                 < markets[last'.market].maintenanceMarginRatio) =>
            /\ last'.err = Ok
            /\ positions'[last'.trader][last'.market] = NoPosition]_vars

\* The fund paid out all it had, less than the debt, and reported it.
C9_Witness ==
    /\ last.op = "coverBadDebt" /\ last.err = Ok
    /\ last.ret = 0 /\ last.out > 0 /\ last.out < last.amt
    /\ totalBalance = 0

----------------------------------------------------------------------------
(* The ClearingHouse and the Funding contract under a running clock *)

FdCaps == {10000}
FdAmounts == {20}
FdLeverages == {10000}
FdMinBases == {0}
FdRatios == {10000}
FdMarks == {300}
FdIndexes == {0, 200}
FdSizes == {20}
FdPeriods == {0, 14400}
FdRates == {500, 10001}
FdTicks == {28800}

NextFunding ==
    \/ AddMarket({ADMIN}, FdCaps)
    \/ OpenPosition(FdAmounts, FdLeverages, FdMinBases)
    \/ ClosePosition(FdRatios)
    \/ UpdateFundingRate({CLEARING_HOUSE}, FdMarks, FdIndexes)
    \/ SettleFunding({CLEARING_HOUSE}, FdSizes)
    \/ SetFundingPeriod({ADMIN}, FdPeriods)
    \/ SetMaxFundingRate({ADMIN}, FdRates)
    \/ Tick(FdTicks)

SpecFunding == Init /\ [][NextFunding]_vars

\* C15: whenever openPosition or closePosition changes an existing position
\* and leaves it open, funding is settled for it in the same call: afterwards
\* the last-seen funding index kept for the position (Position.fundingIndex,
\* or the Funding contract's traderFundingIndex) equals the market's
\* cumulative funding index.
C15_FundingSettledOnChange ==
    [][(/\ last'.op \in {"openPosition", "closePosition"} /\ last'.err = Ok
        /\ positions[last'.caller][last'.market].size # 0
        /\ positions'[last'.caller][last'.market].size # 0) =>
        \/ positions'[last'.caller][last'.market].fundingIndex
              = fundingGrowth'[last'.market].cumulativeFunding
        \/ traderFundingIndex'[last'.caller][last'.market]
              = fundingGrowth'[last'.market].cumulativeFunding]_vars

\* C40: for a trader whose first position in a market is opened after the
\* market's cumulative funding index has moved away from 0, a settlement of
\* that position made before any further updateFundingRate yields owed = 0.
C40_NoFundingBeforeOpen ==
    [][(/\ last.op = "openPosition" /\ last.err = Ok /\ nCalls = 1
        /\ fundingGrowth[last.market].cumulativeFunding # 0
        /\ last'.op = "settleFunding" /\ last'.err = Ok
        /\ last'.trader = last.caller /\ last'.market = last.market
        /\ last'.amt = positions[last.caller][last.market].size)
       => last'.ret = 0]_vars

----------------------------------------------------------------------------
(* The Funding contract on its own under a running clock *)

FaMarks == {150, 210, 300}
FaIndexes == {0, 200}
FaSizes == {-8000, 20}
FaPeriods == {0, 14400}
FaRates == {100, 10001}
FaTicks == {28800}

NextFundingAlone ==
    \/ UpdateFundingRate(ClearingHouseOrNot, FaMarks, FaIndexes)
    \/ SettleFunding(ClearingHouseOrNot, FaSizes)
    \/ SetFundingPeriod(AdminOrNot, FaPeriods)
    \/ SetMaxFundingRate(AdminOrNot, FaRates)
    \/ Tick(FaTicks)

SpecFundingAlone == Init /\ [][NextFundingAlone]_vars

\* The quotient of a by b rounded toward zero.
TruncDiv(a, b) ==
    LET q == Abs(a) \div Abs(b) IN
    IF a = 0 THEN 0 ELSE IF (a > 0) = (b > 0) THEN q ELSE -q

\* The premium of mark over index in basis points, and the rate it gives for
\* the configured funding period before the cap.
PremiumBps(markPrice, indexPrice) ==
    TruncDiv((markPrice - indexPrice) * 10000, indexPrice)
RawRateBps(markPrice, indexPrice) ==
    TruncDiv(PremiumBps(markPrice, indexPrice) * fundingPeriod, 86400)

\* C21: a market's funding record changes only through a successful
\* updateFundingRate, and only when at least fundingPeriod seconds have
\* passed since the market's last update; an earlier call by the
\* ClearingHouse fails with "Too early" and changes nothing; a call at or
\* after that time appends exactly one rate to the cumulative index and sets
\* the last update time to now; settleFunding never changes the record.
C21_IndexChangesOnlyByUpdate ==
    [][/\ \A m \in Markets :
            fundingGrowth'[m] # fundingGrowth[m] =>
                /\ last'.op = "updateFundingRate" /\ last'.market = m
                /\ last'.err = Ok
                /\ now >= fundingGrowth[m].timestamp + fundingPeriod
       /\ (last'.op = "updateFundingRate" /\ last'.caller = CLEARING_HOUSE) =>
            LET old == fundingGrowth[last'.market]
                new == fundingGrowth'[last'.market]
            IN  IF now < old.timestamp + fundingPeriod
                THEN last'.err = "Too early" /\ new = old
                ELSE last'.out # 0 =>
                        /\ last'.err = Ok
                        /\ new.cumulativeFunding = old.cumulativeFunding + last'.ret
                        /\ new.timestamp = now
       /\ last'.op = "settleFunding" => fundingGrowth' = fundingGrowth]_vars

\* The first update of a market, two funding periods or more after time
\* zero, has appended one rate.
C21_Witness ==
    /\ last.op = "updateFundingRate" /\ last.err = Ok /\ last.ret # 0
    /\ fundingGrowth[last.market].timestamp = now
    /\ now >= 2 * fundingPeriod
    /\ fundingGrowth[last.market].cumulativeFunding = last.ret

C25_PendingMatchesSettle ==
    [][(last'.op = "settleFunding" /\ last'.caller = CLEARING_HOUSE) =>
        /\ last'.ret = getPendingFunding(last'.trader, last'.market, last'.amt)
        /\ \A t \in Traders, m \in Markets, size \in FaSizes :
              (t = last'.trader /\ m = last'.market) =>
                  getPendingFunding(t, m, size)' = 0
        /\ \A size \in FaSizes :
              SettleFundingResult(CLEARING_HOUSE, fundingGrowth'[last'.market],
                     traderFundingIndex'[last'.trader][last'.market], size).ret = 0]_vars

\* A settlement that returned funding and left nothing pending.
C25_Witness ==
    /\ last.op = "settleFunding" /\ last.err = Ok /\ last.ret # 0
    /\ traderFundingIndex[last.trader][last.market] # 0
    /\ getPendingFunding(last.trader, last.market, last.amt) = 0

----------------------------------------------------------------------------
(* The Oracle beside the contracts that need its price, under a running clock *)

OrFeeds == {"aggregator"}
OrHeartbeats == {14400}
OrDecimals == {3}
OrAnswers == {2000}
OrAges == {0, 28800}
OrTicks == {14400}
OrMarks == {210}
OrIndexes == {200}
OrCaps == {4000000}
OrAmounts == {20}
OrLeverages == {4000000}
OrMinBases == {0}

NextOracle ==
    \/ AddPriceFeed({ADMIN}, OrFeeds, OrHeartbeats, OrDecimals, OrAnswers, OrAges)
    \/ RemovePriceFeed({ADMIN})
    \/ UpdatePrice(OrAnswers, OrAges)
    \/ Tick(OrTicks)
    \/ UpdateFundingRate({CLEARING_HOUSE}, OrMarks, OrIndexes)
    \/ AddMarket({ADMIN}, OrCaps)
    \/ OpenPosition(OrAmounts, OrLeverages, OrMinBases)
    \/ Liquidate

SpecOracle == Init /\ [][NextOracle]_vars

\* C26: updateFundingRate and liquidate never proceed on a stale oracle
\* price: when isPriceStale is true for the market, the call fails and
\* changes neither the funding record nor any position.
C26_NoProgressOnStalePrice ==
    [][(/\ last'.op \in {"updateFundingRate", "liquidate"}
        /\ isPriceStale(last'.market)) =>
        /\ last'.err # Ok
        /\ fundingGrowth' = fundingGrowth
        /\ positions' = positions]_vars

----------------------------------------------------------------------------
(* The Oracle on its own under a running clock *)

OaFeeds == {"", "aggregator"}
OaHeartbeats == {0, 14400, 28800}
OaDecimals == {1, 2, 3}
OaAnswers == {0, 2000}
OaAges == {0, 14400, 28800}
OaTicks == {14400}

NextOracleAlone ==
    \/ AddPriceFeed(AdminOrNot, OaFeeds, OaHeartbeats, OaDecimals, OaAnswers, OaAges)
    \/ RemovePriceFeed(AdminOrNot)
    \/ UpdatePrice(OaAnswers, OaAges)
    \/ Tick(OaTicks)

SpecOracleAlone == Init /\ [][NextOracleAlone]_vars

\* C27: for an active feed isPriceStale is false right after a successful
\* addPriceFeed or updatePrice and for as long as no more than heartbeat
\* seconds have passed since, true once more than heartbeat seconds have
\* passed, and once true it stays true until the next successful
\* addPriceFeed or updatePrice of that market; for a feed that is not
\* active it is always true.
C27_Staleness ==
    [][\A m \in Markets :
        LET refreshed == /\ last'.op \in {"addPriceFeed", "updatePrice"}
                         /\ last'.market = m /\ last'.err = Ok
        IN  /\ refreshed => ~isPriceStale(m)' /\ lastUpdateTime'[m] = now'
            /\ (isPriceStale(m) /\ ~refreshed) => isPriceStale(m)'
            /\ (priceFeeds'[m].isActive
                   /\ now' - lastUpdateTime'[m] <= priceFeeds'[m].heartbeat)
                  => ~isPriceStale(m)'
            /\ (priceFeeds'[m].isActive
                   /\ now' - lastUpdateTime'[m] > priceFeeds'[m].heartbeat)
                  => isPriceStale(m)'
            /\ ~priceFeeds'[m].isActive => isPriceStale(m)'
            /\ lastUpdateTime'[m] # lastUpdateTime[m] => refreshed]_vars

\* The clock has carried an active feed past its heartbeat.
C27_Witness ==
    /\ last.op = "tick"
    /\ \E m \in Markets :
          /\ priceFeeds[m].isActive
          /\ now - lastUpdateTime[m] > priceFeeds[m].heartbeat
          /\ isPriceStale(m)

----------------------------------------------------------------------------
(* The ExchangeRouter in front of the ClearingHouse and the AccountBalance *)

RtCaps == {10000}
RtAmounts == {0, 20}
RtLeverages == {10000, 10001}
RtMinBases == {0}
RtDeadlines == {28800, 57600}
RtApprovals == BOOLEAN
RtRatios == {0, 5000, 10000}
RtMinQuotes == {0, 1}
RtLedgerAmounts == {0, 10}
RtTicks == {28800}

NextRouter ==
    \/ AddMarket({ADMIN}, RtCaps)
    \/ OpenPositionWithCollateral(RtAmounts, RtLeverages, RtMinBases, RtDeadlines,
                                  RtApprovals)
    \/ ClosePositionToCollateral(RtRatios, RtMinQuotes, RtDeadlines)
    \/ AddCollateral(RtLedgerAmounts, RtApprovals)
    \/ RemoveCollateral(RtLedgerAmounts)
    \/ ClosePositionAndWithdraw(RtMinQuotes)
    \/ Tick(RtTicks)

SpecRouter == Init /\ [][NextRouter]_vars

\* C34: an open or close request through the router fails with
\* "Deadline exceeded" exactly when the current time is past its deadline,
\* whatever its other arguments, and then no token has moved and no position
\* and no balance has changed.
C34_DeadlineCheckedAtEntry ==
    [][last'.op \in {"openPositionWithCollateral", "closePositionToCollateral"} =>
        /\ now > last'.out =>
              /\ last'.err = "Deadline exceeded"
              /\ tokenBalance' = tokenBalance
              /\ positions' = positions
              /\ collateral' = collateral
        /\ now <= last'.out => last'.err # "Deadline exceeded"]_vars

\* An open request that was valid in everything but its deadline.
C34_Witness ==
    /\ last.op = "openPositionWithCollateral" /\ last.err = "Deadline exceeded"
    /\ now > last.out /\ last.amt > 0
    /\ markets[last.market].isActive
    /\ tokenBalance[last.caller] >= last.amt

\* The failures of the collateral token itself: the trader has not approved
\* the router, or the payer does not hold the tokens.
TokenErrors == {"ERC20: insufficient allowance",
                "ERC20: transfer amount exceeds balance"}

\* C35: with AccountBalance accepting calls only from its clearingHouse, a
\* trader's addCollateral(amount > 0) through the router succeeds (the token
\* transfer permitting) and raises their free collateral by amount, and a
\* removeCollateral(amount <= balance) succeeds and lowers it by amount.
C35_RouterDepositWithdraw ==
    [][/\ (last'.op = "addCollateral" /\ last'.amt > 0
           /\ last'.err \notin TokenErrors) =>
            /\ last'.err = Ok
            /\ collateral'[last'.caller] = collateral[last'.caller] + last'.amt
       /\ (last'.op = "removeCollateral" /\ last'.amt > 0
           /\ last'.amt <= collateral[last'.caller]
           /\ last'.err \notin TokenErrors) =>
            /\ last'.err = Ok
            /\ collateral'[last'.caller] = collateral[last'.caller] - last'.amt]_vars

\* C36: a position opened through the router by trader T is recorded under
\* T: after a successful openPositionWithCollateral, getPosition(T, market)
\* shows the size and the collateral of the request added to what T had; and
\* a close through the router by one trader changes no position that
\* getPosition shows for another trader or that another trader opened.
C36_RouterPositionIsTraders ==
    [][/\ \A t \in Traders, m \in Markets :
            (/\ last'.op = "openPositionWithCollateral" /\ last'.err = Ok
             /\ last'.caller = t /\ last'.market = m) =>
                LET old == getPosition(t, m)
                    new == getPosition(t, m)'
                    dSize == IF last'.dir = "long" THEN last'.ret ELSE -last'.ret
                IN  /\ new.size = old.size + dSize
                    /\ new.collateral = old.collateral + last'.amt
       /\ (/\ last.op = "openPositionWithCollateral" /\ last.err = Ok
           /\ last'.op = "closePositionToCollateral" /\ last'.err = Ok
           /\ last'.caller # last.caller) =>
            \A a \in Accounts, m \in Markets : positions'[a][m] = positions[a][m]]_vars

----------------------------------------------------------------------------
(* Two traders on the ClearingHouse, the AccountBalance and the Funding contract *)

IsCaps == {4000000}
IsAmounts == {20}
IsLeverages == {4000000}
IsMinBases == {0}
IsRatios == {10000}
IsLedgerAmounts == {10}
IsPnls == {-10, 10}
IsMarks == {210}
IsIndexes == {200}
IsSizes == {20}

NextIsolation ==
    \/ AddMarket({ADMIN}, IsCaps)
    \/ OpenPosition(IsAmounts, IsLeverages, IsMinBases)
    \/ ClosePosition(IsRatios)
    \/ Liquidate
    \/ Deposit({CLEARING_HOUSE}, IsLedgerAmounts)
    \/ Withdraw({CLEARING_HOUSE}, IsLedgerAmounts)
    \/ RealizePnl({CLEARING_HOUSE}, IsPnls)
    \/ UpdateFundingRate({CLEARING_HOUSE}, IsMarks, IsIndexes)
    \/ SettleFunding({CLEARING_HOUSE}, IsSizes)

SpecIsolation == Init /\ [][NextIsolation]_vars

\* What the contracts keep for the account a: its positions, its free
\* collateral and its funding indexes (the router's address has positions only).
SameAccount(a) ==
    /\ positions'[a] = positions[a]
    /\ a \in Traders =>
          /\ collateral'[a] = collateral[a]
          /\ traderFundingIndex'[a] = traderFundingIndex[a]

----------------------------------------------------------------------------
(* Reading the Oracle while the aggregator posts a round in every block *)

ReFeeds == {"aggregator"}
ReHeartbeats == {14400}
ReDecimals == {1, 2, 3}
ReAnswers == {2000, 2100}
ReAges == {0}
ReTicks == {14400}

NextOracleRead ==
    \/ AddPriceFeed({ADMIN}, ReFeeds, ReHeartbeats, ReDecimals, ReAnswers, ReAges)
    \/ RemovePriceFeed({ADMIN})
    \/ UpdatePrice(ReAnswers, ReAges)
    \/ GetIndexPrice(ReAnswers, ReAges)
    \/ Tick(ReTicks)

SpecOracleRead == Init /\ [][NextOracleRead]_vars

\* C38: for a market with an active feed, getIndexPrice returns a price
\* exactly when isPriceStale is false, and is rejected with "Stale price"
\* exactly when isPriceStale is true.
C38_StalenessChecksAgree ==
    [][(last'.op = "getIndexPrice" /\ priceFeeds[last'.market].isActive) =>
        /\ last'.err = Ok <=> ~isPriceStale(last'.market)
        /\ last'.err = "Stale price" <=> isPriceStale(last'.market)]_vars

----------------------------------------------------------------------------
(* The vAMM under swaps of any size *)

WdSwapAmounts == {300, 2100000}
WdMinOuts == {0}
WdReserves == {500, 1500}

NextVammWide ==
    \/ Swap({CLEARING_HOUSE}, WdSwapAmounts, WdMinOuts)
    \/ AdjustReserves({ADMIN}, WdReserves)

SpecVammWide == Init /\ [][NextVammWide]_vars

\* C39: in every reachable state of the vAMM, after any sequence of
\* successful swaps and adjustReserves calls, virtualBase > 0 and
\* virtualQuote > 0, so that no price computation divides by zero.
C39_ReservesStayPositive == virtualBase > 0 /\ virtualQuote > 0

====
